---- MODULE Spec2Model ----
(***************************************************************************)
(* A model of ffmpegfront (src/ffmpegfront.go): one run of main, from the  *)
(* command-line flags to the exit of the process.  Strings are TLA+        *)
(* strings; argument vectors are sequences of strings.  The settings       *)
(* document is a JSON object, modelled as a function from its keys to its  *)
(* values, and json.Unmarshal is modelled by its key/tag matching.         *)
(* The two subprocesses (the loudness measurement and the main encoder)    *)
(* are part of the state: each is "none", running or exited.               *)
(* The log sink (getLogFilePath, the log.Printf calls) decides nothing in  *)
(* the run and is left out.                                                *)
(***************************************************************************)
EXTENDS Integers, Sequences, FiniteSets, TLC

VARIABLES
    templateType,  \* flag -make-template
    inFile,        \* flag -infile
    outFile,       \* flag -outfile
    settingsFile,  \* flag -settings
    pc,            \* position of main
    exitCode,      \* exit status of the process once pc = "exit", -1 before
    templateFile,  \* the preset written to template.json, "" when none
    loadErr,       \* what parseSettingsJson met: "none", "open", "read", "parse"
    jsonBytes,     \* the settings document as read
    settings,      \* the Settings value main works on
    args,          \* the argument vector of the main encoder
    audioArgs,     \* what main appended for the audio stream
    videoArgs,     \* what main appended for the video stream
    meas,          \* the loudness-measurement subprocess
    enc,           \* the main encode subprocess
    measLaunches,  \* how many measurement subprocesses were started
    encLaunches    \* how many encode subprocesses were started

vars == <<templateType, inFile, outFile, settingsFile, pc, exitCode, templateFile,
          loadErr, jsonBytes, settings, args, audioArgs, videoArgs, meas, enc,
          measLaunches, encLaunches>>

-----------------------------------------------------------------------------
(* Bounds and program constants *)

\* The longest diagnostic output (in lines) the measurement subprocess writes.
MaxLines == 14

\* lines[len(lines)-13 : len(lines)-1]: the slice needs 13 lines.
TailLines == 13

-----------------------------------------------------------------------------
(* Strings *)

CharAt(s, i) == SubSeq(s, i, i)

Digits == "0123456789"

DigitSet == {CharAt(Digits, i) : i \in 1..10}

IsDigit(c) == c \in DigitSet

UpperCase == "ABCDEFGHIJKLMNOPQRSTUVWXYZ"
LowerCase == "abcdefghijklmnopqrstuvwxyz"

UpperSet == {CharAt(UpperCase, i) : i \in 1..26}

LowerOf ==
    [c \in UpperSet |-> CharAt(LowerCase, CHOOSE i \in 1..26 : CharAt(UpperCase, i) = c)]

LowerChar(c) == IF c \in UpperSet THEN LowerOf[c] ELSE c

RECURSIVE ToLower(_)
ToLower(s) == IF Len(s) = 0 THEN "" ELSE LowerChar(CharAt(s, 1)) \o ToLower(SubSeq(s, 2, Len(s)))

\* strings.EqualFold on ASCII keys, as encoding/json matches a key to a field.
EqualFold(a, b) == ToLower(a) = ToLower(b)

RECURSIVE NatToStr(_)
NatToStr(n) == IF n < 10 THEN CharAt(Digits, n + 1)
               ELSE NatToStr(n \div 10) \o CharAt(Digits, (n % 10) + 1)

\* fmt.Sprintf("%d", n)
IntToStr(n) == IF n < 0 THEN "-" \o NatToStr(-n) ELSE NatToStr(n)

\* regexp `^[0-9]*:[0-9]*$`
MatchString(s) ==
    \E k \in 1..Len(s) :
        /\ CharAt(s, k) = ":"
        /\ \A i \in 1..Len(s) : i # k => IsDigit(CharAt(s, i))

-----------------------------------------------------------------------------
(* json.Unmarshal into Settings *)

\* The value a document object gives the field tagged `tag`: the key equal to
\* the tag, else a key equal to it up to case, else the field's zero value.
Field(obj, tag, zero) ==
    IF tag \in DOMAIN obj THEN obj[tag]
    ELSE IF \E k \in DOMAIN obj : EqualFold(k, tag)
         THEN obj[CHOOSE k \in DOMAIN obj : EqualFold(k, tag)]
         ELSE zero

UnmarshalVideo(o) ==
    [SoftwareEncode |-> Field(o, "softwareEncode", FALSE),
     JustCopy       |-> Field(o, "justCopy", FALSE),
     Resolution     |-> Field(o, "resolution", ""),
     Mode           |-> Field(o, "mode", ""),
     Quality        |-> Field(o, "quality", 0),
     Tune           |-> Field(o, "tune", ""),
     VideoBitrate   |-> Field(o, "videoBitrate", ""),
     VideoMaxRate   |-> Field(o, "videoMaxRate", ""),
     VideoBufSize   |-> Field(o, "videoBufsize", "")]

AudioBitrateTag == "auidioBitrate"

UnmarshalAudio(o) ==
    [JustCopy      |-> Field(o, "justCopy", FALSE),
     AudioCodec    |-> Field(o, "audioCodec", ""),
     AudioChannels |-> Field(o, "audioChannels", ""),
     AudioFilter   |-> Field(o, "audioFilter", ""),
     AudioBitrate  |-> Field(o, AudioBitrateTag, ""),
     Loudnorm2Pass |-> Field(o, "loudnorm2Pass", FALSE)]

UnmarshalSubtitles(o) ==
    [BurnInSubtitles |-> Field(o, "burnInSubtitles", FALSE),
     SubtitleFile    |-> Field(o, "subtitleFile", ""),
     SubtitleStyle   |-> Field(o, "subtitleStyle", "")]

UnmarshalTime(o) ==
    [TimeSkipIntro |-> Field(o, "timeSkipIntro", 0),
     TotalTime     |-> Field(o, "totalTime", 0)]

UnmarshalReady(o) ==
    [NoOverwrite |-> Field(o, "noOverwrite", FALSE),
     Completed   |-> Field(o, "completed", FALSE),
     Notes       |-> Field(o, "notes", "")]

EmptyObject == <<>>

Unmarshal(doc) ==
    [Video     |-> UnmarshalVideo(Field(doc, "video", EmptyObject)),
     Audio     |-> UnmarshalAudio(Field(doc, "audio", EmptyObject)),
     Subtitles |-> UnmarshalSubtitles(Field(doc, "subtitles", EmptyObject)),
     Time      |-> UnmarshalTime(Field(doc, "time", EmptyObject)),
     Ready     |-> UnmarshalReady(Field(doc, "ready", EmptyObject))]

\* var settings Settings: the zero value, which a failed Unmarshal leaves.
ZeroSettings == Unmarshal(EmptyObject)

-----------------------------------------------------------------------------
(* The argument builders *)

Presets == {"480p", "720p", "1080p", "4k"}


\* resolutionMap with an unknown name passed through instead of ending the run.
resolutionMap_PassThrough(res) ==
    IF res \in Presets
    THEN [ok |-> TRUE,
          fullRes |-> CASE res = "480p"  -> "640:480"
                        [] res = "720p"  -> "1280:720"
                        [] res = "1080p" -> "1920:1080"
                        [] res = "4k"    -> "3840:2160"]
    ELSE [ok |-> TRUE, fullRes |-> res]

\* resolutionMap: ok = FALSE is os.Exit(1).
resolutionMap(res) ==
    IF res \in Presets
    THEN [ok |-> TRUE,
          fullRes |-> CASE res = "480p"  -> "640:480"
                        [] res = "720p"  -> "1280:720"
                        [] res = "1080p" -> "1920:1080"
                        [] res = "4k"    -> "3840:2160"]
    ELSE [ok |-> FALSE, fullRes |-> ""]

\* parseVideoSettings, the codec and quality arguments.
VideoCodecArgs(v) ==
    IF ~v.SoftwareEncode
    THEN <<"-c:v", "h264_omx", "-profile:v", "high">>
    ELSE <<"-profile:v", "high10">> \o
         (IF v.Mode = "cbr" /\ v.VideoBitrate # ""
          THEN <<"-b:v", v.VideoBitrate>>
          ELSE <<"-crf", IntToStr(v.Quality), "-maxrate", v.VideoMaxRate,
                 "-bufsize", v.VideoBufSize, "-tune", v.Tune>>)

\* The scale clause of the filter; ok = FALSE when resolutionMap exits.
ScaleClause(v) ==
    IF v.Resolution = "" THEN [ok |-> TRUE, filter |-> ""]
    ELSE IF MatchString(v.Resolution)
         THEN [ok |-> TRUE, filter |-> "scale=" \o v.Resolution]
         ELSE LET r == resolutionMap(v.Resolution)
              IN  [ok |-> r.ok, filter |-> "scale=" \o r.fullRes]


\* SubtitleClause with the input media file burnt in whatever subtitleFile says.
SubtitleClause_AlwaysInput(filter, s, f) ==
    IF ~s.BurnInSubtitles THEN filter
    ELSE LET opened == filter \o ", subtitles='" \o f
             styled == IF s.SubtitleStyle # ""
                       THEN opened \o ":force_style=" \o s.SubtitleStyle
                       ELSE opened
         IN  styled \o "'"

\* The subtitles clause appended to the filter built so far.
SubtitleClause(filter, s, f) ==
    IF ~s.BurnInSubtitles THEN filter
    ELSE LET subFile == IF s.SubtitleFile = "" THEN f ELSE s.SubtitleFile
             opened  == filter \o ", subtitles='" \o subFile
             styled  == IF s.SubtitleStyle # ""
                        THEN opened \o ":force_style=" \o s.SubtitleStyle
                        ELSE opened
         IN  styled \o "'"

\* parseVideoSettings, the -vf argument.
VideoFilterArgs(v, s, f) ==
    IF v.Resolution # "" \/ s.BurnInSubtitles
    THEN LET sc == ScaleClause(v)
         IN  [ok |-> sc.ok, args |-> <<"-vf", SubtitleClause(sc.filter, s, f)>>]
    ELSE [ok |-> TRUE, args |-> <<>>]

parseVideoSettings(v, s, f) ==
    LET fa == VideoFilterArgs(v, s, f)
    IN  [ok |-> fa.ok, args |-> VideoCodecArgs(v) \o fa.args]


\* VideoSection with justCopy only adding the copy directive to the rest.
VideoSection_CopyAdded(v, s, f) ==
    LET p == parseVideoSettings(v, s, f)
    IN  IF v.JustCopy THEN [ok |-> p.ok, args |-> <<"-c:v", "copy">> \o p.args] ELSE p

\* main, the video section: stream copy or parseVideoSettings.
VideoSection(v, s, f) ==
    IF v.JustCopy THEN [ok |-> TRUE, args |-> <<"-c:v", "copy">>]
    ELSE parseVideoSettings(v, s, f)

\* parseAudioSettings up to the filter: codec, channels, bitrate.
AudioBaseArgs(a) ==
    <<"-c:a", IF a.AudioCodec # "" THEN a.AudioCodec ELSE "aac">> \o
    (IF a.AudioChannels # "" THEN <<"-ac", a.AudioChannels>> ELSE <<>>) \o
    <<"-b:a", IF a.AudioBitrate # "" THEN a.AudioBitrate ELSE "192k">>


\* FilterWanted with any named filter taken for a wanted one.
FilterWanted_AnyFilter(a) == a.AudioFilter # "" \/ a.Loudnorm2Pass

\* parseAudioSettings: whether a -filter:a argument is emitted.
FilterWanted(a) == a.AudioFilter = "loudnorm" \/ a.Loudnorm2Pass

\* parseAudioSettings: whether getLoudnormJson is called.
MeasureWanted(a) == FilterWanted(a) /\ a.Loudnorm2Pass

\* The second-pass filter built from the measured values.
LoudnormFilter(ln) ==
    "loudnorm=I=-16:TP=-1.5:LRA=11:measured_I=" \o ln.OutputI \o
    ":measured_LRA=" \o ln.OutputLra \o ":measured_TP=" \o ln.OutputTp \o
    ":measured_thresh=" \o ln.OutputThresh \o ":offset=" \o ln.TargetOffset \o
    ":linear=true"

\* parseAudioSettings with the filter string it ends up with.
parseAudioSettings(a, filter) ==
    IF FilterWanted(a) THEN AudioBaseArgs(a) \o <<"-filter:a", filter>>
    ELSE AudioBaseArgs(a)

\* main, the audio section: stream copy or parseAudioSettings.
AudioSection(a, filter) ==
    IF a.JustCopy THEN <<"-c:a", "copy">> ELSE parseAudioSettings(a, filter)


\* HeadArgs with the duration limit put before the time skip.
HeadArgs_DurationFirst(s, in) ==
    <<"-i", in>> \o
    (IF ~s.Ready.NoOverwrite THEN <<"-y">> ELSE <<>>) \o
    (IF s.Time.TotalTime # 0 THEN <<"-t", IntToStr(s.Time.TotalTime)>> ELSE <<>>) \o
    (IF s.Time.TimeSkipIntro # 0 THEN <<"-ss", IntToStr(s.Time.TimeSkipIntro)>> ELSE <<>>)

\* main, the arguments before the streams: input, overwrite, time options.
HeadArgs(s, in) ==
    <<"-i", in>> \o
    (IF ~s.Ready.NoOverwrite THEN <<"-y">> ELSE <<>>) \o
    (IF s.Time.TimeSkipIntro # 0 THEN <<"-ss", IntToStr(s.Time.TimeSkipIntro)>> ELSE <<>>) \o
    (IF s.Time.TotalTime # 0 THEN <<"-t", IntToStr(s.Time.TotalTime)>> ELSE <<>>)


\* MeasureOutcome with the exit status of the subprocess not looked at.
MeasureOutcome_StatusIgnored(runOk, nLines, jsonOk) ==
    IF nLines < TailLines THEN "panic"
    ELSE IF ~jsonOk THEN "exit1"
    ELSE "ok"

\* getLoudnormJson after cmd.Run returned: "exit1" (the subprocess failed),
\* "panic" (fewer lines than the slice takes), "exit1" again (the fragment is
\* no JSON), else "ok".
MeasureOutcome(runOk, nLines, jsonOk) ==
    IF ~runOk THEN "exit1"
    ELSE IF nLines < TailLines THEN "panic"
    ELSE IF ~jsonOk THEN "exit1"
    ELSE "ok"

\* makeTemplate: the preset a name selects.
TemplateKey(arg) ==
    IF arg \in {"template", "movie", "tv-high", "tv-normal"} THEN arg ELSE "template"

-----------------------------------------------------------------------------
(* The inputs of a run *)

Resolutions == {"", "480p", "720p", "1080p", "4k", "1280:720", ":", "abc", "12:3x"}

VideoObjects ==
    {[softwareEncode |-> sw, justCopy |-> jc, resolution |-> r, mode |-> m,
      quality |-> 23, tune |-> "film", videoBitrate |-> vb,
      videoMaxRate |-> "4M", videoBufSize |-> "6M"] :
        sw \in BOOLEAN, jc \in BOOLEAN, r \in Resolutions,
        m \in {"crf", "cbr"}, vb \in {"", "2000k"}}

SubtitleObjects ==
    {[burnInSubtitles |-> b, subtitleFile |-> sf, subtitleStyle |-> st] :
        b \in BOOLEAN, sf \in {"", "subs.srt"}, st \in {"", "Fontsize=24"}}

\* The bitrate of a document's audio object: absent, under the key of the
\* data model, under the key of the struct tag, or under both.
BitrateKeys ==
    {EmptyObject,
     [audioBitrate |-> "256k"],
     [auidioBitrate |-> "128k"],
     [audioBitrate |-> "256k", auidioBitrate |-> "128k"]}

AudioObjects ==
    {[justCopy |-> jc, audioCodec |-> c, audioChannels |-> ch, audioFilter |-> fl,
      loudnorm2Pass |-> tp] @@ br :
        jc \in BOOLEAN, c \in {"", "flac"}, ch \in {"", "2"},
        fl \in {"", "loudnorm", "volume"}, tp \in BOOLEAN, br \in BitrateKeys}

TimeValues == {-5, 0, 10, 30}

TimeObjects == {[timeSkipIntro |-> a, totalTime |-> b] : a \in TimeValues, b \in TimeValues}

ReadyObjects == {[noOverwrite |-> n, completed |-> FALSE, notes |-> ""] : n \in BOOLEAN}

\* A few objects of each kind, to go with every object of another kind.
SomeVideo ==
    {v \in VideoObjects :
        /\ v.mode = "crf" /\ v.videoBitrate = ""
        /\ \/ v.justCopy /\ ~v.softwareEncode /\ v.resolution = "abc"
           \/ ~v.justCopy /\ ~v.softwareEncode /\ v.resolution = "720p"
           \/ ~v.justCopy /\ v.softwareEncode /\ v.resolution = ""}

SomeSubtitles ==
    {s \in SubtitleObjects : s.subtitleFile = "" /\ s.subtitleStyle = ""}

SomeAudio ==
    {a \in AudioObjects :
        /\ a.audioCodec = "" /\ a.audioChannels = "" /\ DOMAIN a = DOMAIN
               [justCopy |-> 0, audioCodec |-> 0, audioChannels |-> 0,
                audioFilter |-> 0, loudnorm2Pass |-> 0]
        /\ \/ a.justCopy /\ a.audioFilter = "loudnorm" /\ a.loudnorm2Pass
           \/ ~a.justCopy /\ a.audioFilter = "" /\ ~a.loudnorm2Pass
           \/ ~a.justCopy /\ a.audioFilter = "loudnorm" /\ a.loudnorm2Pass}

SomeTime == {[timeSkipIntro |-> 0, totalTime |-> 0]}

SomeReady == {r \in ReadyObjects : ~r.noOverwrite}

\* The example of the specification: both streams copied, 10 s skipped, 30 s kept.
ExampleDoc ==
    [video |-> [justCopy |-> TRUE], audio |-> [justCopy |-> TRUE],
     time |-> [timeSkipIntro |-> 10, totalTime |-> 30]]

\* The settings documents a run may be given: every video and subtitles object,
\* every audio object, every time and ready object, each with a few of the others.
Docs ==
    {[video |-> v, audio |-> a, subtitles |-> s, time |-> t, ready |-> r] :
        v \in VideoObjects, a \in SomeAudio, s \in SubtitleObjects,
        t \in SomeTime, r \in SomeReady}
    \cup
    {[video |-> v, audio |-> a, subtitles |-> s, time |-> t, ready |-> r] :
        v \in SomeVideo, a \in AudioObjects, s \in SomeSubtitles,
        t \in SomeTime, r \in SomeReady}
    \cup
    {[video |-> v, audio |-> a, subtitles |-> s, time |-> t, ready |-> r] :
        v \in SomeVideo, a \in SomeAudio, s \in SomeSubtitles,
        t \in TimeObjects, r \in ReadyObjects}
    \cup {ExampleDoc}

\* What the measurement subprocess may report; the second has no values at all.
Measurements ==
    {[OutputI |-> "-23.1", OutputTp |-> "-4.2", OutputLra |-> "6.5",
      OutputThresh |-> "-33.4", TargetOffset |-> "0.3"],
     [OutputI |-> "", OutputTp |-> "", OutputLra |-> "",
      OutputThresh |-> "", TargetOffset |-> ""]}

NoBytes == [syntaxOk |-> FALSE, obj |-> EmptyObject]

-----------------------------------------------------------------------------
(* The run *)

Init ==
    /\ templateType \in {"", "movie", "bogus"}
    /\ inFile \in {"", "in.mp4"}
    /\ outFile \in {"", "out.mp4"}
    /\ settingsFile \in {"", "settings.json"}
    /\ pc = "flags"
    /\ exitCode = -1
    /\ templateFile = ""
    /\ loadErr = "none"
    /\ jsonBytes = NoBytes
    /\ settings = ZeroSettings
    /\ args = <<>>
    /\ audioArgs = <<>>
    /\ videoArgs = <<>>
    /\ meas = "none"
    /\ enc = "none"
    /\ measLaunches = 0
    /\ encLaunches = 0

Exit(code) == pc' = "exit" /\ exitCode' = code

\* main: -make-template writes the preset and exits 0.
WriteTemplate ==
    /\ pc = "flags"
    /\ templateType # ""
    /\ templateFile' = TemplateKey(templateType)
    /\ Exit(0)
    /\ UNCHANGED <<templateType, inFile, outFile, settingsFile, loadErr, jsonBytes,
                   settings, args, audioArgs, videoArgs, meas, enc, measLaunches,
                   encLaunches>>

\* main: the three required flags.
CheckFlags ==
    /\ pc = "flags"
    /\ templateType = ""
    /\ IF inFile = "" \/ outFile = "" \/ settingsFile = ""
       THEN Exit(1)
       ELSE pc' = "load" /\ UNCHANGED exitCode
    /\ UNCHANGED <<templateType, inFile, outFile, settingsFile, templateFile, loadErr,
                   jsonBytes, settings, args, audioArgs, videoArgs, meas, enc,
                   measLaunches, encLaunches>>

\* parseSettingsJson: the file cannot be opened, or cannot be read.
LoadFails ==
    /\ pc = "load"
    /\ \E e \in {"open", "read"} : loadErr' = e
    /\ Exit(1)
    /\ UNCHANGED <<templateType, inFile, outFile, settingsFile, templateFile, jsonBytes,
                   settings, args, audioArgs, videoArgs, meas, enc, measLaunches,
                   encLaunches>>

\* parseSettingsJson: the file is read but is no JSON; the error is logged and
\* the settings, still the zero value, are returned.  (A document that is JSON
\* but gives a field a value of the wrong type is logged the same way, with the
\* other fields filled; no such document is among the inputs.)
LoadUnparsable ==
    /\ pc = "load"
    /\ loadErr' = "parse"
    /\ jsonBytes' = [syntaxOk |-> FALSE, obj |-> EmptyObject]
    /\ settings' = ZeroSettings
    /\ pc' = "head"
    /\ UNCHANGED <<templateType, inFile, outFile, settingsFile, exitCode, templateFile,
                   args, audioArgs, videoArgs, meas, enc, measLaunches, encLaunches>>

\* parseSettingsJson: the file is read and parsed.
LoadOk ==
    /\ pc = "load"
    /\ \E doc \in Docs :
        /\ jsonBytes' = [syntaxOk |-> TRUE, obj |-> doc]
        /\ settings' = Unmarshal(doc)
    /\ pc' = "head"
    /\ UNCHANGED <<templateType, inFile, outFile, settingsFile, exitCode, templateFile,
                   loadErr, args, audioArgs, videoArgs, meas, enc, measLaunches,
                   encLaunches>>

\* main: -i, -y, -ss, -t.
BuildHead ==
    /\ pc = "head"
    /\ args' = HeadArgs(settings, inFile)
    /\ pc' = "audio"
    /\ UNCHANGED <<templateType, inFile, outFile, settingsFile, exitCode, templateFile,
                   loadErr, jsonBytes, settings, audioArgs, videoArgs, meas, enc,
                   measLaunches, encLaunches>>

\* main: the audio section when no measurement is run: stream copy, or
\* parseAudioSettings with its filter string left empty.
AudioNoMeasure ==
    /\ pc = "audio"
    /\ settings.Audio.JustCopy \/ ~MeasureWanted(settings.Audio)
    /\ LET sec == AudioSection(settings.Audio, "")
       IN  audioArgs' = sec /\ args' = args \o sec
    /\ pc' = "video"
    /\ UNCHANGED <<templateType, inFile, outFile, settingsFile, exitCode, templateFile,
                   loadErr, jsonBytes, settings, videoArgs, meas, enc, measLaunches,
                   encLaunches>>

\* getLoudnormJson: cmd.Run starts the measurement subprocess.
LaunchMeasure ==
    /\ pc = "audio"
    /\ ~settings.Audio.JustCopy /\ MeasureWanted(settings.Audio)
    /\ meas' = "running"
    /\ measLaunches' = measLaunches + 1
    /\ pc' = "measuring"
    /\ UNCHANGED <<templateType, inFile, outFile, settingsFile, exitCode, templateFile,
                   loadErr, jsonBytes, settings, args, audioArgs, videoArgs, enc,
                   encLaunches>>

\* getLoudnormJson: the subprocess exits; its output is cut and parsed, and
\* parseAudioSettings and main go on to the video section, or the run ends.
MeasureExit ==
    /\ pc = "measuring"
    /\ \E runOk \in BOOLEAN, nLines \in 1..MaxLines, jsonOk \in BOOLEAN, ln \in Measurements :
        LET out == MeasureOutcome(runOk, nLines, jsonOk)
            sec == AudioSection(settings.Audio, LoudnormFilter(ln))
        IN  /\ meas' = IF ~runOk THEN "failed"
                       ELSE IF nLines < TailLines \/ ~jsonOk THEN "unparsable"
                       ELSE "parsed"
            /\ CASE out = "exit1" -> Exit(1) /\ UNCHANGED <<args, audioArgs>>
                 [] out = "panic" -> Exit(2) /\ UNCHANGED <<args, audioArgs>>
                 [] out = "ok"    -> /\ audioArgs' = sec
                                     /\ args' = args \o sec
                                     /\ pc' = "video"
                                     /\ UNCHANGED exitCode
    /\ UNCHANGED <<templateType, inFile, outFile, settingsFile, templateFile, loadErr,
                   jsonBytes, settings, videoArgs, enc, measLaunches, encLaunches>>

\* main: the video section; resolutionMap may end the run.
VideoStep ==
    /\ pc = "video"
    /\ LET sec == VideoSection(settings.Video, settings.Subtitles, inFile)
       IN  IF sec.ok
           THEN /\ videoArgs' = sec.args
                /\ args' = args \o sec.args
                /\ pc' = "launch"
                /\ UNCHANGED exitCode
           ELSE Exit(1) /\ UNCHANGED <<args, videoArgs>>
    /\ UNCHANGED <<templateType, inFile, outFile, settingsFile, templateFile, loadErr,
                   jsonBytes, settings, audioArgs, meas, enc, measLaunches, encLaunches>>

\* main: the output path goes last and the encoder is started.
LaunchEncoder ==
    /\ pc = "launch"
    /\ args' = Append(args, outFile)
    /\ enc' = "running"
    /\ encLaunches' = encLaunches + 1
    /\ pc' = "encoding"
    /\ UNCHANGED <<templateType, inFile, outFile, settingsFile, exitCode, templateFile,
                   loadErr, jsonBytes, settings, audioArgs, videoArgs, meas, measLaunches>>

\* main: the encoder exits, with whatever status; main returns.
EncoderExit ==
    /\ pc = "encoding"
    /\ \E ok \in BOOLEAN : enc' = IF ok THEN "exited" ELSE "failed"
    /\ Exit(0)
    /\ UNCHANGED <<templateType, inFile, outFile, settingsFile, templateFile, loadErr,
                   jsonBytes, settings, args, audioArgs, videoArgs, meas, measLaunches,
                   encLaunches>>

Next ==
    \/ WriteTemplate
    \/ CheckFlags
    \/ LoadFails
    \/ LoadUnparsable
    \/ LoadOk
    \/ BuildHead
    \/ AudioNoMeasure
    \/ LaunchMeasure
    \/ MeasureExit
    \/ VideoStep
    \/ LaunchEncoder
    \/ EncoderExit

Spec == Init /\ [][Next]_vars

-----------------------------------------------------------------------------
(* The claims *)

HasPrefix(s, p) == Len(s) >= Len(p) /\ SubSeq(s, 1, Len(p)) = p

RECURSIVE TrimLeft(_)
TrimLeft(s) == IF Len(s) > 0 /\ CharAt(s, 1) = " " THEN TrimLeft(SubSeq(s, 2, Len(s))) ELSE s

\* The part of a filter chain before its first comma.
RECURSIVE FirstClause(_)
FirstClause(s) ==
    IF Len(s) = 0 \/ CharAt(s, 1) = "," THEN ""
    ELSE CharAt(s, 1) \o FirstClause(SubSeq(s, 2, Len(s)))

\* Where a flag stands in an argument list.
Positions(list, flag) == {i \in 1..Len(list) : list[i] = flag}

\* The value that follows the (only) flag of a list.
ValueOf(list, flag) == list[(CHOOSE i \in Positions(list, flag) : TRUE) + 1]

AudioBuilt == audioArgs # <<>>
VideoBuilt == videoArgs # <<>>

\* The decimal form of the time values of the documents.
DecimalOf == (-5 :> "-5") @@ (0 :> "0") @@ (10 :> "10") @@ (30 :> "30")

\* The width:height the specification gives each accepted resolution of the documents.
ExpectedScale ==
    [r \in {"480p", "720p", "1080p", "4k", "1280:720", ":"} |->
        CASE r = "480p"     -> "640:480"
          [] r = "720p"     -> "1280:720"
          [] r = "1080p"    -> "1920:1080"
          [] r = "4k"       -> "3840:2160"
          [] r = "1280:720" -> "1280:720"
          [] r = ":"        -> ":"]

\* C1: once the main encoder is started, its argument vector is -i infile, then
\* -y iff noOverwrite is false, then -ss and -t iff non-zero, then the audio
\* arguments, then the video arguments, then the output path; the example of
\* the specification gives exactly the vector the specification lists.
C1_ArgumentOrder ==
    encLaunches > 0 =>
        /\ args = <<"-i", inFile>>
                  \o (IF settings.Ready.NoOverwrite THEN <<>> ELSE <<"-y">>)
                  \o (IF settings.Time.TimeSkipIntro = 0 THEN <<>>
                      ELSE <<"-ss", DecimalOf[settings.Time.TimeSkipIntro]>>)
                  \o (IF settings.Time.TotalTime = 0 THEN <<>>
                      ELSE <<"-t", DecimalOf[settings.Time.TotalTime]>>)
                  \o audioArgs \o videoArgs \o <<outFile>>
        /\ AudioBuilt /\ VideoBuilt
        /\ ( /\ settings.Video.JustCopy /\ settings.Audio.JustCopy
             /\ ~settings.Ready.NoOverwrite
             /\ settings.Time.TimeSkipIntro = 10 /\ settings.Time.TotalTime = 30
             => args = <<"-i", inFile, "-y", "-ss", "10", "-t", "30",
                         "-c:a", "copy", "-c:v", "copy", outFile>> )

C1_Witness ==
    /\ enc = "running"
    /\ settings.Time.TimeSkipIntro = 10 /\ settings.Time.TotalTime = 30
    /\ args = <<"-i", "in.mp4", "-y", "-ss", "10", "-t", "30",
                "-c:a", "copy", "-c:v", "copy", "out.mp4">>

\* C2: when the settings document cannot be opened, read or parsed, no
\* subprocess is ever started and the run ends with a non-zero status.
C2_LoadFailureIsFatal ==
    loadErr # "none" =>
        /\ measLaunches = 0
        /\ encLaunches = 0
        /\ pc = "exit" => exitCode # 0

\* C3: at most one measurement and one encode are started, never both running;
\* the encode starts only with no measurement or a measurement that exited well
\* and was parsed; a failed or unparsable measurement ends the run with a
\* non-zero status and no encode.
C3_SubprocessOrder ==
    /\ measLaunches <= 1
    /\ encLaunches <= 1
    /\ ~(meas = "running" /\ enc = "running")
    /\ (enc # "none" \/ encLaunches > 0) => meas \in {"none", "parsed"}
    /\ meas \in {"failed", "unparsable"} =>
            pc = "exit" /\ exitCode # 0 /\ enc = "none" /\ encLaunches = 0

C3_Witness == meas = "parsed" /\ enc = "running" /\ measLaunches = 1 /\ encLaunches = 1

\* C4: with justCopy set on a stream, the section built for that stream is
\* exactly the copy directive, whatever the other fields hold.
C4_JustCopyOnly ==
    /\ (AudioBuilt /\ settings.Audio.JustCopy) => audioArgs = <<"-c:a", "copy">>
    /\ (VideoBuilt /\ settings.Video.JustCopy) => videoArgs = <<"-c:v", "copy">>
    /\ (AudioBuilt /\ settings.Video.JustCopy) => ~(pc = "exit" /\ exitCode # 0)
    /\ settings.Audio.JustCopy => measLaunches = 0

C4_Witness ==
    /\ enc = "running"
    /\ settings.Video.JustCopy /\ settings.Audio.JustCopy
    /\ settings.Video.Resolution = "abc" /\ settings.Subtitles.BurnInSubtitles
    /\ settings.Audio.AudioFilter = "loudnorm" /\ settings.Audio.Loudnorm2Pass
    /\ audioArgs = <<"-c:a", "copy">> /\ videoArgs = <<"-c:v", "copy">>

\* C5: for a video that is not copied and names a resolution: a w:h string is
\* scaled to unchanged, a preset to its width:height, and any other name ends
\* the run with a non-zero status before the encoder is started.
C5_Resolution ==
    LET v == settings.Video
        r == v.Resolution
    IN  (~v.JustCopy /\ r # "") =>
            IF r \in DOMAIN ExpectedScale
            THEN VideoBuilt =>
                    /\ Cardinality(Positions(videoArgs, "-vf")) = 1
                    /\ FirstClause(ValueOf(videoArgs, "-vf")) = "scale=" \o ExpectedScale[r]
            ELSE /\ ~VideoBuilt
                 /\ encLaunches = 0 /\ enc = "none"
                 /\ pc \notin {"launch", "encoding"}
                 /\ pc = "exit" => exitCode # 0

C5_Witness ==
    /\ pc = "exit" /\ exitCode = 1
    /\ AudioBuilt
    /\ ~settings.Video.JustCopy /\ settings.Video.Resolution = "12:3x"
    /\ encLaunches = 0

\* C6: with audioFilter other than "loudnorm", loudnorm2Pass is ignored: no
\* measurement subprocess is started and no -filter:a argument is built.
C6_TwoPassIgnored ==
    settings.Audio.AudioFilter # "loudnorm" =>
        /\ measLaunches = 0
        /\ Positions(audioArgs, "-filter:a") = {}

\* C7: an audio stream that is not copied, with audioFilter other than
\* "loudnorm" and loudnorm2Pass false, gets -c:a, the optional -ac and -b:a,
\* and no -filter:a.
C7_NoFilter ==
    LET a == settings.Audio
    IN  (AudioBuilt /\ ~a.JustCopy /\ a.AudioFilter # "loudnorm" /\ ~a.Loudnorm2Pass) =>
            /\ Positions(audioArgs, "-filter:a") = {}
            /\ Len(audioArgs) = (IF a.AudioChannels # "" THEN 6 ELSE 4)
            /\ audioArgs[1] = "-c:a"
            /\ a.AudioChannels # "" => audioArgs[3] = "-ac" /\ audioArgs[4] = a.AudioChannels
            /\ audioArgs[Len(audioArgs) - 1] = "-b:a"

C7_Witness ==
    /\ AudioBuilt /\ ~settings.Audio.JustCopy
    /\ settings.Audio.AudioFilter = "volume" /\ ~settings.Audio.Loudnorm2Pass
    /\ audioArgs = <<"-c:a", "flac", "-ac", "2", "-b:a", "128k">>

\* C8: a video that is not copied, with an accepted resolution and subtitle
\* burn-in, gets one -vf flag whose value is the scale clause, a comma, and the
\* subtitles clause, which names subtitleFile, or the input file when it is empty.
C8_OneFilterChain ==
    LET v == settings.Video
        s == settings.Subtitles
    IN  (VideoBuilt /\ ~v.JustCopy /\ v.Resolution \in DOMAIN ExpectedScale
            /\ s.BurnInSubtitles) =>
            /\ Cardinality(Positions(videoArgs, "-vf")) = 1
            /\ LET val   == ValueOf(videoArgs, "-vf")
                   scale == "scale=" \o ExpectedScale[v.Resolution]
                   file  == IF s.SubtitleFile # "" THEN s.SubtitleFile ELSE inFile
               IN  /\ HasPrefix(val, scale \o ",")
                   /\ HasPrefix(TrimLeft(SubSeq(val, Len(scale) + 2, Len(val))),
                                "subtitles='" \o file)
                   /\ CharAt(val, Len(val)) = "'"

C8_Witness ==
    /\ VideoBuilt /\ ~settings.Video.JustCopy
    /\ settings.Video.Resolution = "720p" /\ settings.Subtitles.BurnInSubtitles
    /\ settings.Subtitles.SubtitleFile = "subs.srt"
    /\ ValueOf(videoArgs, "-vf") = "scale=1280:720, subtitles='subs.srt'"

\* C9: a document that sets the key audioBitrate of an audio stream that is
\* not copied gets that value after -b:a.
C9_AudioBitrateHonoured ==
    (/\ jsonBytes.syntaxOk
     /\ AudioBuilt
     /\ ~settings.Audio.JustCopy
     /\ "audio" \in DOMAIN jsonBytes.obj
     /\ "audioBitrate" \in DOMAIN jsonBytes.obj.audio) =>
        \E i \in Positions(audioArgs, "-b:a") :
            i < Len(audioArgs) /\ audioArgs[i + 1] = jsonBytes.obj.audio.audioBitrate

\* C10: the value of every -vf argument begins with its first clause, scale=
\* when a resolution is set and subtitles= otherwise, and neither begins nor
\* ends with the comma that separates clauses.
C10_WellFormedFilter ==
    \A i \in Positions(videoArgs, "-vf") :
        LET val == videoArgs[i + 1]
        IN  /\ HasPrefix(val, IF settings.Video.Resolution # "" THEN "scale=" ELSE "subtitles=")
            /\ CharAt(val, 1) # ","
            /\ CharAt(val, Len(val)) # ","

====
